---------------------------- MODULE Spec2Model ----------------------------
(***************************************************************************)
(* Model of the message-garden serverless handlers (flower / fish / bird). *)
(* One request runs through: method dispatch, input normalisation,         *)
(* capacity checks, prompt composition (moderation + language model),      *)
(* image generation (+ fallback retry), storage upload, database insert,   *)
(* optional CMS push, response.  Every `await` of the source is one        *)
(* atomic step whose outcome is chosen by the environment.                 *)
(***************************************************************************)
EXTENDS Integers, Naturals, Sequences, FiniteSets, TLC

(***************************************************************************)
(* Strings.  A string is a sequence of runs <<c, n>>: character c repeated *)
(* n >= 1 times (so that messages longer than the 200..500 character caps  *)
(* stay small values).                                                     *)
(***************************************************************************)
IsWhitespace(c) == c \in {" ", "\t", "\n"}

RECURSIVE StrLen(_)
StrLen(s) == IF s = <<>> THEN 0 ELSE Head(s)[2] + StrLen(Tail(s))

RECURSIVE TrimStart(_)
TrimStart(s) ==
    IF s = <<>> THEN <<>>
    ELSE IF IsWhitespace(Head(s)[1]) THEN TrimStart(Tail(s))
    ELSE s

RECURSIVE TrimEnd(_)
TrimEnd(s) ==
    IF s = <<>> THEN <<>>
    ELSE IF IsWhitespace(s[Len(s)][1]) THEN TrimEnd(SubSeq(s, 1, Len(s) - 1))
    ELSE s

\* String.prototype.trim
Trim(s) == TrimEnd(TrimStart(s))

\* a slice that keeps the whole string
Slice0_Whole(s, k) == s

\* String.prototype.slice(0, k)
RECURSIVE Slice0(_, _)
Slice0(s, k) ==
    IF s = <<>> \/ k <= 0 THEN <<>>
    ELSE IF Head(s)[2] <= k
         THEN <<Head(s)>> \o Slice0(Tail(s), k - Head(s)[2])
         ELSE << <<Head(s)[1], k>> >>

Str1(c) == << <<c, 1>> >>

(***************************************************************************)
(* Raw request bodies: the `message` member of req.body as JSON can carry  *)
(* it (or its absence).                                                    *)
(***************************************************************************)
RawUndefined == [t |-> "undefined", s |-> <<>>]
RawNull      == [t |-> "null", s |-> <<>>]
RawFalse     == [t |-> "false", s |-> <<>>]
RawZero      == [t |-> "zero", s |-> <<>>]
RawSeven     == [t |-> "seven", s |-> <<>>]
RawString(s) == [t |-> "string", s |-> s]

\* message || ""
OrEmpty(raw) ==
    IF raw.t \in {"undefined", "null", "false", "zero"} THEN RawString(<<>>)
    ELSE IF raw.t = "string" /\ raw.s = <<>> THEN RawString(<<>>)
    ELSE raw

\* .toString()
JsToString(raw) == IF raw.t = "seven" THEN Str1("7") ELSE raw.s

\* the normaliser without .trim()
Normalize_NoTrim(raw, cap) == Slice0(JsToString(OrEmpty(raw)), cap)

\* const clean = (message || "").toString().trim().slice(0, cap)
Normalize(raw, cap) == Slice0(Trim(JsToString(OrEmpty(raw))), cap)

(***************************************************************************)
(* The handler variants.  Each record lists the decisions in which one     *)
(* handler differs from the others:                                        *)
(*   cap            message length cap of the normaliser                   *)
(*   sanitize       sanitizeInput(clean) is applied (safeMessage)          *)
(*   globalCheck    "none" | "plain" | "throwOnError"                      *)
(*   perIp          per-identity ceiling, 0 when there is no such check    *)
(*   userMod        the user message is screened by moderation             *)
(*   llm            "none" | "throws" (no try/catch) | "fallback"          *)
(*   emptySafe      an empty description is replaced by the safe one:      *)
(*                  "no" | "before" (the prompt moderation) | "after"      *)
(*   promptMod      "none" | "helper" (isFlaggedByModeration) | "inline"   *)
(*   compose        "asis" | "template" | "styled" | "fixed"               *)
(*   imageFallback  "none" | "own500" | "classified" | "codeOnly" |        *)
(*                  "always"                                               *)
(*   safetyRe       the message pattern of the classifier                  *)
(*   retryStyled    the retry prompt is buildStyledPrompt(fallbackDesc)    *)
(*   retrySetsUsed  the retry assigns actualPromptUsed                     *)
(*   uploadChecked / insertChecked   the returned error value is thrown    *)
(*   cms            "none" | "strict" | "log" | "guarded"                  *)
(*   details        the 500 response carries e.message                     *)
(***************************************************************************)
Base ==
    [cap |-> 500, sanitize |-> FALSE, globalCheck |-> "plain",
     globalMsg |-> "Garden is full", perIp |-> 500,
     perIpMsg |-> "Max 3 blooms per user", userMod |-> FALSE,
     llm |-> "throws", emptySafe |-> "no", promptMod |-> "none",
     compose |-> "asis", style |-> "", fallbackDesc |-> "",
     safePrompt |-> "", imageFallback |-> "none", safetyRe |-> "none",
     retryStyled |-> FALSE, retrySetsUsed |-> FALSE,
     promptUsedColumn |-> FALSE,
     uploadChecked |-> FALSE, insertChecked |-> FALSE, cms |-> "none",
     storesIp |-> TRUE, styleVersion |-> 2, prefix |-> "bloomAI_",
     table |-> "blooms", details |-> TRUE]

Cfg_submitAI_1 == Base

Cfg_submitAI_2 ==
    [Base EXCEPT !.userMod = TRUE, !.emptySafe = "before",
                 !.promptMod = "helper",
                 !.safePrompt = "SAFE_FALLBACK_PROMPT",
                 !.imageFallback = "classified",
                 !.safetyRe = "safety system|moderation",
                 !.retrySetsUsed = TRUE]

Cfg_submitFish ==
    [Base EXCEPT !.globalCheck = "none", !.perIp = 0, !.globalMsg = "",
                 !.perIpMsg = "", !.promptUsedColumn = TRUE,
                 !.styleVersion = 1, !.prefix = "fish/fish_",
                 !.table = "fish"]

Cfg_submitBird ==
    [Base EXCEPT !.globalMsg = "The aviary is full",
                 !.perIpMsg = "Max 3 birds per user",
                 !.promptUsedColumn = TRUE, !.styleVersion = 4,
                 !.prefix = "birdAI_", !.table = "bird"]

Cfg_part_000 ==
    [Base EXCEPT !.llm = "fallback", !.compose = "styled",
                 !.style = "STYLE_BLOCK_000",
                 !.fallbackDesc = "SAFE_FALLBACK_DESC",
                 !.imageFallback = "always", !.retryStyled = TRUE,
                 !.styleVersion = 7]

Cfg_part_001 ==
    [Base EXCEPT !.cap = 200, !.llm = "fallback", !.emptySafe = "after",
                 !.promptMod = "helper", !.compose = "template",
                 !.style = "TEMPLATE_001",
                 !.fallbackDesc = "SAFE_FALLBACK_PROMPT",
                 !.safePrompt = "SAFE_FALLBACK_PROMPT",
                 !.imageFallback = "own500", !.styleVersion = 3]

Cfg_part_002 ==
    [Base EXCEPT !.safePrompt = "SAFE_FALLBACK_PROMPT",
                 !.imageFallback = "classified",
                 !.safetyRe = "safety|moderation"]

Cfg_part_003_1 ==
    [Base EXCEPT !.perIp = 100, !.cms = "strict"]

Cfg_part_003_2 ==
    [Base EXCEPT !.promptUsedColumn = TRUE, !.styleVersion = 4]

Cfg_part_004 ==
    [Base EXCEPT !.sanitize = TRUE, !.perIp = 50, !.llm = "none",
                 !.compose = "fixed", !.style = "TEMPLATE_004",
                 !.safePrompt = "LUMINOUS_SAFE_FLOWER",
                 !.imageFallback = "codeOnly", !.cms = "log",
                 !.styleVersion = 3]

Cfg_part_005 ==
    [Base EXCEPT !.globalCheck = "throwOnError",
                 !.globalMsg = "The garden is full",
                 !.perIp = 0, !.perIpMsg = "", !.uploadChecked = TRUE,
                 !.insertChecked = TRUE, !.cms = "guarded",
                 !.storesIp = FALSE, !.details = FALSE]

Cfg_part_006 == Cfg_submitAI_2

Cfg_part_007 ==
    [Base EXCEPT !.perIp = 50, !.perIpMsg = "Max 50 blooms per user",
                 !.llm = "fallback", !.promptMod = "inline",
                 !.compose = "template", !.style = "TEMPLATE_007",
                 !.fallbackDesc = "IMAGINARY_LILY",
                 !.safePrompt = "IMAGINARY_LILY"]

Cfg_part_008 == [Base EXCEPT !.styleVersion = 3]

Cfg_part_009_1 ==
    [Base EXCEPT !.cap = 300, !.llm = "fallback", !.compose = "styled",
                 !.style = "STYLE_BLOCK_009",
                 !.fallbackDesc = "SAFE_FALLBACK_DESC",
                 !.safePrompt = "SAFE_FALLBACK_PROMPT",
                 !.imageFallback = "always", !.styleVersion = 10]

Cfg_part_009_2 == [Base EXCEPT !.perIp = 50, !.cms = "log"]

Cfg_part_010 ==
    [Base EXCEPT !.userMod = TRUE, !.emptySafe = "before",
                 !.promptMod = "helper",
                 !.safePrompt = "SAFE_FALLBACK_PROMPT",
                 !.imageFallback = "always", !.retrySetsUsed = TRUE]

Handlers ==
    {"submitAI_1", "submitAI_2", "submitFish", "submitBird", "part_000",
     "part_001", "part_002", "part_003_1", "part_003_2", "part_004",
     "part_005", "part_006", "part_007", "part_008", "part_009_1",
     "part_009_2", "part_010"}

Cfg(h) ==
    CASE h = "submitAI_1" -> Cfg_submitAI_1
      [] h = "submitAI_2" -> Cfg_submitAI_2
      [] h = "submitFish" -> Cfg_submitFish
      [] h = "submitBird" -> Cfg_submitBird
      [] h = "part_000"   -> Cfg_part_000
      [] h = "part_001"   -> Cfg_part_001
      [] h = "part_002"   -> Cfg_part_002
      [] h = "part_003_1" -> Cfg_part_003_1
      [] h = "part_003_2" -> Cfg_part_003_2
      [] h = "part_004"   -> Cfg_part_004
      [] h = "part_005"   -> Cfg_part_005
      [] h = "part_006"   -> Cfg_part_006
      [] h = "part_007"   -> Cfg_part_007
      [] h = "part_008"   -> Cfg_part_008
      [] h = "part_009_1" -> Cfg_part_009_1
      [] h = "part_009_2" -> Cfg_part_009_2
      [] h = "part_010"   -> Cfg_part_010

(***************************************************************************)
(* Prompts.  A prompt is what the handler assembles: a description (the    *)
(* language model's text or a fixed fallback), the user message when the   *)
(* handler embeds it itself, and the style template the handler wraps      *)
(* around it ("" when the handler sends the text as it is).                *)
(***************************************************************************)
NoPrompt == [desc |-> "", msg |-> <<>>, style |-> ""]

\* the prompt string handed to images.generate, built from the description
BuildPrompt(c, d, m) ==
    CASE c.compose = "asis"     -> [desc |-> d, msg |-> <<>>, style |-> ""]
      [] c.compose = "template" -> [desc |-> d, msg |-> <<>>, style |-> c.style]
      [] c.compose = "styled"   ->
            [desc |-> IF d = "" THEN c.fallbackDesc ELSE d,
             msg |-> <<>>, style |-> c.style]
      [] c.compose = "fixed"    -> [desc |-> "", msg |-> m, style |-> c.style]

\* the fixed safe prompt
SafePrompt(c) == [desc |-> c.safePrompt, msg |-> <<>>, style |-> ""]

\* if (userFlagged || !flowerPrompt) flowerPrompt = SAFE_FALLBACK_PROMPT
DescBeforeMod(c, userFlagged, t) ==
    IF c.emptySafe = "before" /\ (userFlagged \/ t = "") THEN c.safePrompt
    ELSE t

\* a gate that keeps the description whatever moderation said
DescAfterMod_KeepsFlagged(c, d, flagged) == d

\* if (flagged [|| !flowerPrompt]) flowerPrompt = SAFE_FALLBACK_PROMPT
DescAfterMod(c, d, flagged) ==
    IF flagged \/ (c.emptySafe = "after" /\ d = "") THEN c.safePrompt ELSE d

\* the prompt of the fallback image call
RetryPrompt(c) ==
    IF c.retryStyled THEN BuildPrompt(c, c.fallbackDesc, <<>>)
    ELSE SafePrompt(c)

(***************************************************************************)
(* Seed.  hashToSeed reads the first four bytes of the SHA-256 digest as a *)
(* big-endian unsigned 32-bit integer.  The digest itself is the crypto    *)
(* library's; here it is a fixed deterministic mixing function with the    *)
(* same range, h := (31 h + k) mod 2^32 per run, kept as two 16-bit halves *)
(* (hi, lo) because the checker's integers are 32-bit signed.              *)
(***************************************************************************)
CharCode(ch) ==
    CASE ch = " "  -> 32
      [] ch = "\n" -> 10
      [] ch = "\t" -> 9
      [] ch = "7"  -> 55
      [] ch = "a"  -> 97
      [] ch = "b"  -> 98
      [] OTHER     -> 63

RECURSIVE Digest(_, _)
Digest(s, h) ==
    IF s = <<>> THEN h
    ELSE LET lo == h.lo * 31 + CharCode(Head(s)[1]) * Head(s)[2] + 17
             hi == h.hi * 31 + (lo \div 65536)
         IN  Digest(Tail(s), [hi |-> hi % 65536, lo |-> lo % 65536])

HashToSeed(s) == Digest(s, [hi |-> 0, lo |-> 5381])

NoSeed == [hi |-> 0, lo |-> 0]

\* sanitizeInput: the replaced words do not occur in the modelled inputs
SanitizeInput(s) == Slice0(s, 100)

(***************************************************************************)
(* Capacity checks.  A count query yields a number, or null together with  *)
(* an error value (the client does not throw); null >= n is false.         *)
(***************************************************************************)
CountOk(n) == [null |-> FALSE, n |-> n]
CountNull  == [null |-> TRUE, n |-> 0]
NoCount    == [null |-> TRUE, n |-> -1]

\* the global check with > in place of >=
GlobalCapacityExceeded_Strict(count) == (~count.null) /\ count.n > 200

\* a global check that takes a missing count for a full table
GlobalCapacityExceeded_NullIsFull(count) == count.null \/ count.n >= 200

\* the global check against the per-identity ceiling of 500
GlobalCapacityExceeded_Ceiling500(count) == (~count.null) /\ count.n >= 500

\* if (count >= 200)
GlobalCapacityExceeded(count) == (~count.null) /\ count.n >= 200

\* the per-identity check with > in place of >=
PerIdentityCapacityExceeded_Strict(c, userCount) ==
    (~userCount.null) /\ userCount.n > c.perIp

\* if (userCount >= ceiling)
PerIdentityCapacityExceeded(c, userCount) ==
    (~userCount.null) /\ userCount.n >= c.perIp

(***************************************************************************)
(* Image errors and their classification.  msg is the error message as a   *)
(* sequence of words.                                                      *)
(***************************************************************************)
Lower(w) ==
    CASE w = "Safety"     -> "safety"
      [] w = "System"     -> "system"
      [] w = "Moderation" -> "moderation"
      [] OTHER            -> w

HasWord(msg, w) == \E i \in 1..Len(msg) : Lower(msg[i]) = w

HasPhrase(msg, w1, w2) ==
    \E i \in 1..(Len(msg) - 1) : Lower(msg[i]) = w1 /\ Lower(msg[i + 1]) = w2

\* /safety system|moderation/i.test(msg)  and  /safety|moderation/i.test(msg)
MatchesSafetyRe(re, msg) ==
    CASE re = "safety system|moderation" ->
            HasPhrase(msg, "safety", "system") \/ HasWord(msg, "moderation")
      [] re = "safety|moderation" ->
            HasWord(msg, "safety") \/ HasWord(msg, "moderation")
      [] OTHER -> FALSE

\* looksLikeModerationBlock / looksSafety / err.code === "moderation_blocked"
LooksLikeModerationBlock(c, err) ==
    CASE c.imageFallback = "classified" ->
            err.code = "moderation_blocked"
            \/ (err.status = 400 /\ MatchesSafetyRe(c.safetyRe, err.msg))
      [] c.imageFallback = "codeOnly" -> err.code = "moderation_blocked"
      [] OTHER -> FALSE

\* a catch block that retries whatever the error is
OnImageError_AlwaysRetry(c, err) == "retry"

\* what the catch block of the first image call does with err
OnImageError(c, err) ==
    CASE c.imageFallback = "none"       -> "throw"
      [] c.imageFallback = "own500"     -> "imageError500"
      [] c.imageFallback = "classified" ->
            IF LooksLikeModerationBlock(c, err) THEN "retry"
            ELSE "imageError500"
      [] c.imageFallback = "codeOnly"   ->
            IF LooksLikeModerationBlock(c, err) THEN "retry" ELSE "throw"
      [] c.imageFallback = "always"     -> "retry"

\* a failed fallback left to the outer catch
OnRetryError_Throws(c) == "throw"

\* what happens when the fallback image call fails too
OnRetryError(c) ==
    IF c.imageFallback = "classified" THEN "blocked400" ELSE "throw"

ImageErrors ==
    { [code |-> "moderation_blocked", status |-> 400,
       msg |-> <<"rejected", "by", "Safety", "system">>],
      [code |-> "", status |-> 400, msg |-> <<"content", "moderation">>],
      [code |-> "", status |-> 400, msg |-> <<"safety", "violation">>],
      [code |-> "", status |-> 500, msg |-> <<"safety", "system", "down">>],
      [code |-> "rate_limit_exceeded", status |-> 429, msg |-> <<"quota">>] }

NoError == [code |-> "", status |-> 0, msg |-> <<>>]

(***************************************************************************)
(* State.                                                                  *)
(***************************************************************************)
Req == {"r1", "r2"}
IPs == {"ip1", "ip2"}
Methods == {"OPTIONS", "POST", "GET"}

\* the longest message the environment sends
LongLen == 600

\* the last clock value Date.now() can return
MaxNow == 1

RawInputs ==
    { RawUndefined, RawNull, RawFalse, RawZero, RawSeven,
      RawString(<<>>),
      RawString(<< <<" ", 2>>, <<"\n", 1>> >>),
      RawString(Str1("a")),
      RawString(<< <<" ", 1>>, <<"b", LongLen>>, <<" ", 1>> >>),
      RawString(<< <<"b", 499>>, <<" ", 1>>, <<"b", LongLen - 500>> >>) }

LlmTexts == {"", "rose"}

\* rows that are in the table before the modelled requests, per ip
Profiles ==
    { [ip1 |-> 0, ip2 |-> 0],
      [ip1 |-> 3, ip2 |-> 0],
      [ip1 |-> 199, ip2 |-> 0],
      [ip1 |-> 200, ip2 |-> 0],
      [ip1 |-> 500, ip2 |-> 0],
      [ip1 |-> 50, ip2 |-> 100] }

\* what a call of openai.moderations.create can end as
ModerationOutcomes == {"clean", "flagged", "error"}

\* what the clients send and what the services answer, in full
FullEnv ==
    [methods |-> Methods, raws |-> RawInputs, ips |-> IPs,
     countFails |-> {FALSE, TRUE}, modOuts |-> ModerationOutcomes,
     llmOuts |-> {[ok |-> TRUE, text |-> t] : t \in LlmTexts}
                 \cup {[ok |-> FALSE, text |-> ""]},
     imgOuts |-> {NoError} \cup ImageErrors,
     uploadOuts |-> {"ok", "error"}, insertOuts |-> {"ok", "error"},
     cmsOuts |-> {"ok", "notok", "throw"}]

\* two clients posting short messages while the services mostly succeed
RaceEnv ==
    [methods |-> {"POST"},
     raws |-> {RawString(Str1("a")), RawString(<< <<" ", 1>>, <<"a", 1>> >>)},
     ips |-> IPs, countFails |-> {FALSE}, modOuts |-> {"clean", "flagged"},
     llmOuts |-> {[ok |-> TRUE, text |-> "rose"]},
     imgOuts |-> {NoError,
                  [code |-> "moderation_blocked", status |-> 400,
                   msg |-> <<"rejected", "by", "Safety", "system">>]},
     uploadOuts |-> {"ok"}, insertOuts |-> {"ok"},
     cmsOuts |-> {"ok", "notok"}]

\* one client, every way each external call can return or throw
LiveEnv ==
    [methods |-> Methods, raws |-> {RawNull, RawString(Str1("a"))},
     ips |-> {"ip1"}, countFails |-> {FALSE, TRUE},
     modOuts |-> ModerationOutcomes,
     llmOuts |-> {[ok |-> TRUE, text |-> "rose"], [ok |-> FALSE, text |-> ""]},
     imgOuts |-> {NoError,
                  [code |-> "moderation_blocked", status |-> 400,
                   msg |-> <<"rejected", "by", "Safety", "system">>],
                  [code |-> "rate_limit_exceeded", status |-> 429,
                   msg |-> <<"quota">>]},
     uploadOuts |-> {"ok", "error"}, insertOuts |-> {"ok", "error"},
     cmsOuts |-> {"ok", "notok", "throw"}]

LiveProfiles ==
    {[ip1 |-> 0, ip2 |-> 0], [ip1 |-> 50, ip2 |-> 100],
     [ip1 |-> 200, ip2 |-> 0]}

\* clients posting one after another; every count query answers truly
SeqEnv ==
    [methods |-> {"POST", "GET"}, raws |-> {RawNull, RawString(Str1("a"))},
     ips |-> IPs, countFails |-> {FALSE}, modOuts |-> ModerationOutcomes,
     llmOuts |-> {[ok |-> TRUE, text |-> "rose"], [ok |-> FALSE, text |-> ""]},
     imgOuts |-> {NoError,
                  [code |-> "moderation_blocked", status |-> 400,
                   msg |-> <<"rejected", "by", "Safety", "system">>],
                  [code |-> "rate_limit_exceeded", status |-> 429,
                   msg |-> <<"quota">>]},
     uploadOuts |-> {"ok", "error"}, insertOuts |-> {"ok", "error"},
     cmsOuts |-> {"ok"}]

SeqHandlers == {"submitAI_1", "submitAI_2", "submitBird"}

SeqProfiles ==
    {[ip1 |-> 100, ip2 |-> 98], [ip1 |-> 199, ip2 |-> 0],
     [ip1 |-> 100, ip2 |-> 100]}

RaceHandlers == {"submitAI_2", "submitBird", "part_004"}

RaceProfiles == {[ip1 |-> 199, ip2 |-> 0], [ip1 |-> 49, ip2 |-> 0]}

VARIABLES
    env,       \* the requests and service outcomes that can occur
    handler,   \* the handler variant that is deployed
    pre,       \* rows already in the theme table, per ip
    rows,      \* rows inserted by the modelled requests, in order
    bucket,    \* objects in the storage bucket
    now,       \* the clock read by Date.now()
    pc,        \* per request: the await it is suspended at
    req,       \* per request: method, message, ip
    loc,       \* per request: the handler's local variables
    resp,      \* per request: the response sent
    hist       \* per request: the external calls made so far

vars == <<env, handler, pre, rows, bucket, now, pc, req, loc, resp, hist>>

NoFile == [prefix |-> "", t |-> -1, seed |-> NoSeed]

NoResp ==
    [status |-> 0, ok |-> FALSE, error |-> "", image_url |-> NoFile,
     prompt |-> NoPrompt, details |-> FALSE, cors |-> FALSE]

NoCalls ==
    [count |-> 0, mod |-> 0, llm |-> 0, img |-> 0, upload |-> 0,
     insert |-> 0, cms |-> 0]

InitLoc ==
    [clean |-> <<>>, msg |-> <<>>, userFlagged |-> FALSE, desc |-> "",
     prompt |-> NoPrompt, used |-> NoPrompt, revised |-> NoPrompt,
     image_url |-> NoFile]

InitHist ==
    [calls |-> NoCalls, count |-> NoCount, userCount |-> NoCount,
     llmFailed |-> FALSE, imgPrompts |-> <<>>, imgErrs |-> <<>>,
     imgOk |-> FALSE, uploadOk |-> FALSE, insertErr |-> FALSE,
     cms |-> "none", modOuts |-> <<>>, trace |-> <<>>]

\* state shared by the two initial conditions
InitRest ==
    /\ rows = <<>>
    /\ bucket = {}
    /\ now = 0
    /\ req = [r \in Req |-> [method |-> "", raw |-> RawUndefined, ip |-> ""]]
    /\ loc = [r \in Req |-> InitLoc]
    /\ resp = [r \in Req |-> NoResp]
    /\ hist = [r \in Req |-> InitHist]

\* one invocation, any handler, every input and outcome
Init ==
    /\ env = FullEnv
    /\ handler \in Handlers
    /\ pre \in Profiles
    /\ pc = [r \in Req |-> IF r = "r1" THEN "idle" ELSE "off"]
    /\ InitRest

\* two concurrent invocations of one handler
InitRace ==
    /\ env = RaceEnv
    /\ handler \in RaceHandlers
    /\ pre \in RaceProfiles
    /\ pc = [r \in Req |-> "idle"]
    /\ InitRest

Conf == Cfg(handler)

RECURSIVE SumOver(_, _)
SumOver(f, S) ==
    IF S = {} THEN 0
    ELSE LET x == CHOOSE y \in S : TRUE IN f[x] + SumOver(f, S \ {x})

\* select("*", { count: "exact", head: true })
TableCount == SumOver(pre, IPs) + Len(rows)

\* ... .eq("ip", ip)
TableCountFor(ip) ==
    pre[ip] + Cardinality({i \in 1..Len(rows) : rows[i].ip = ip})

\* what a count query can return when the table holds n matching rows
CountResults(n) ==
    {CountOk(n)} \cup {CountNull : f \in env.countFails \ {FALSE}}

Called(r, svc) ==
    [hist EXCEPT ![r].calls[svc] = @ + 1, ![r].trace = Append(@, svc)]

(***************************************************************************)
(* Responses.                                                              *)
(***************************************************************************)
ErrorResp(status, error) ==
    [NoResp EXCEPT !.status = status, !.error = error, !.cors = TRUE]

\* the outer catch: res.status(500).json({ error: "Server error", details })
ServerError(c) == [ErrorResp(500, "Server error") EXCEPT !.details = c.details]

OkResp(url, prompt) ==
    [NoResp EXCEPT !.status = 200, !.ok = TRUE, !.image_url = url,
                   !.prompt = prompt, !.cors = TRUE]

\* a pipeline that asks the language model before screening the message
AfterChecks_LlmFirst(c) == IF c.llm # "none" THEN "llm" ELSE "image"

\* the stage after the synchronous prologue, and after each check
AfterChecks(c) ==
    IF c.userMod THEN "modUser"
    ELSE IF c.llm # "none" THEN "llm"
    ELSE "image"

AfterCount(c) == IF c.perIp > 0 THEN "userCount" ELSE AfterChecks(c)

FirstStage(c) == IF c.globalCheck # "none" THEN "count" ELSE AfterChecks(c)

\* a pipeline that goes from the prompt straight to the upload
AfterLlm_SkipsImage(c) == "upload"


AfterLlm(c) == IF c.promptMod # "none" THEN "modPrompt" ELSE "image"

AfterInsert(c) == IF c.cms # "none" THEN "cms" ELSE "done"

\* a return that sends nothing
Finish_NoResponse(r, response) ==
    /\ UNCHANGED resp
    /\ pc' = [pc EXCEPT ![r] = "done"]

Finish(r, response) ==
    /\ resp' = [resp EXCEPT ![r] = response]
    /\ pc' = [pc EXCEPT ![r] = "done"]

Goto(r, stage) ==
    /\ pc' = [pc EXCEPT ![r] = stage]
    /\ UNCHANGED resp

\* a moderation helper that takes a failed call for a flagged text
IsFlaggedByModeration_FailClosed(outcome) == outcome # "clean"

\* isFlaggedByModeration: a failed moderation call counts as not flagged
IsFlaggedByModeration(outcome) == outcome = "flagged"

(***************************************************************************)
(* The handler, one action per await.                                      *)
(***************************************************************************)

\* a dispatch that only turns GET away
Dispatch_OnlyGetRejected(m) == IF m = "GET" THEN "reject" ELSE "handle"

\* if (req.method === "OPTIONS") ... if (req.method !== "POST") ...
Dispatch(m) ==
    IF m = "OPTIONS" THEN "preflight"
    ELSE IF m # "POST" THEN "reject"
    ELSE "handle"

\* The synchronous prologue: method dispatch, normalisation, empty check.
Invoke(r) ==
    /\ pc[r] = "idle"
    /\ \E m \in env.methods, raw \in env.raws, ip \in env.ips :
         LET clean == Normalize(raw, Conf.cap)
             msg   == IF Conf.sanitize THEN SanitizeInput(clean) ELSE clean
         IN  /\ req' = [req EXCEPT ![r] = [method |-> m, raw |-> raw, ip |-> ip]]
             /\ IF Dispatch(m) = "preflight"
                THEN /\ Finish(r, [NoResp EXCEPT !.status = 200, !.cors = TRUE])
                     /\ UNCHANGED loc
                ELSE IF Dispatch(m) = "reject"
                THEN /\ Finish(r, ErrorResp(405, "Use POST"))
                     /\ UNCHANGED loc
                ELSE IF clean = <<>>
                THEN /\ Finish(r, ErrorResp(400, "Message required"))
                     /\ UNCHANGED loc
                ELSE /\ Goto(r, FirstStage(Conf))
                     /\ loc' = [loc EXCEPT
                                  ![r].clean = clean,
                                  ![r].msg = msg,
                                  ![r].prompt =
                                      IF Conf.llm = "none"
                                      THEN BuildPrompt(Conf, "", msg)
                                      ELSE NoPrompt]
    /\ UNCHANGED <<env, handler, pre, rows, bucket, now, hist>>

\* Global capacity: count of all rows of the theme table.
CountQuery(r) ==
    /\ pc[r] = "count"
    /\ \E res \in CountResults(TableCount) :
         /\ hist' = [Called(r, "count") EXCEPT ![r].count = res]
         /\ IF Conf.globalCheck = "throwOnError" /\ res.null
            THEN Finish(r, ServerError(Conf))
            ELSE IF GlobalCapacityExceeded(res)
            THEN Finish(r, ErrorResp(403, Conf.globalMsg))
            ELSE Goto(r, AfterCount(Conf))
    /\ UNCHANGED <<env, handler, pre, rows, bucket, now, req, loc>>

\* Per-identity capacity: count of the rows whose ip is the submitter's.
UserCountQuery(r) ==
    /\ pc[r] = "userCount"
    /\ \E res \in CountResults(TableCountFor(req[r].ip)) :
         /\ hist' = [Called(r, "count") EXCEPT ![r].userCount = res]
         /\ IF PerIdentityCapacityExceeded(Conf, res)
            THEN Finish(r, ErrorResp(403, Conf.perIpMsg))
            ELSE Goto(r, AfterChecks(Conf))
    /\ UNCHANGED <<env, handler, pre, rows, bucket, now, req, loc>>

\* Moderation of the user's message.
ModerateUser(r) ==
    /\ pc[r] = "modUser"
    /\ \E out \in env.modOuts :
         LET flagged == IsFlaggedByModeration(out)
         IN  /\ hist' = [Called(r, "mod") EXCEPT
                          ![r].modOuts =
                              Append(@, [stage |-> "user", out |-> out,
                                         msg |-> loc[r].clean, desc |-> ""])]
             /\ loc' = [loc EXCEPT
                          ![r].userFlagged = flagged,
                          ![r].desc = IF flagged
                                      THEN DescBeforeMod(Conf, TRUE, "")
                                      ELSE @]
             /\ Goto(r, IF flagged THEN "modPrompt" ELSE "llm")
    /\ UNCHANGED <<env, handler, pre, rows, bucket, now, req>>

\* The language-model completion.
Llm(r) ==
    /\ pc[r] = "llm"
    /\ \E out \in env.llmOuts :
         /\ hist' = [Called(r, "llm") EXCEPT ![r].llmFailed = ~out.ok]
         /\ IF ~out.ok /\ Conf.llm = "throws"
            THEN /\ Finish(r, ServerError(Conf))
                 /\ UNCHANGED loc
            ELSE LET t == IF out.ok THEN out.text ELSE Conf.fallbackDesc
                     d == DescBeforeMod(Conf, loc[r].userFlagged, t)
                 IN  /\ Goto(r, AfterLlm(Conf))
                     /\ loc' = [loc EXCEPT
                                  ![r].desc = d,
                                  ![r].prompt =
                                      IF Conf.promptMod = "none"
                                      THEN BuildPrompt(Conf, d, loc[r].msg)
                                      ELSE @]
    /\ UNCHANGED <<env, handler, pre, rows, bucket, now, req>>

\* Moderation of the composed description.
ModeratePrompt(r) ==
    /\ pc[r] = "modPrompt"
    /\ \E out \in env.modOuts :
         LET d == DescAfterMod(Conf, loc[r].desc, IsFlaggedByModeration(out))
         IN  /\ hist' = [Called(r, "mod") EXCEPT
                          ![r].modOuts =
                              Append(@, [stage |-> "prompt", out |-> out,
                                         msg |-> <<>>, desc |-> loc[r].desc])]
             /\ loc' = [loc EXCEPT
                          ![r].desc = d,
                          ![r].prompt = BuildPrompt(Conf, d, loc[r].msg)]
             /\ Goto(r, "image")
    /\ UNCHANGED <<env, handler, pre, rows, bucket, now, req>>

\* The first image-generation call and its catch block.
ImageGenerate(r) ==
    /\ pc[r] = "image"
    /\ \E out \in env.imgOuts :
         LET p == loc[r].prompt
             h == [Called(r, "img") EXCEPT
                     ![r].imgPrompts = Append(@, p)]
         IN  /\ loc' = [loc EXCEPT ![r].used = p, ![r].revised = p]
             /\ IF out = NoError
                THEN /\ hist' = [h EXCEPT ![r].imgOk = TRUE]
                     /\ Goto(r, "upload")
                ELSE /\ hist' = [h EXCEPT ![r].imgErrs = Append(@, out)]
                     /\ CASE OnImageError(Conf, out) = "retry" ->
                                Goto(r, "retry")
                          [] OnImageError(Conf, out) = "imageError500" ->
                                Finish(r, ErrorResp(500, "Image generation error"))
                          [] OnImageError(Conf, out) = "throw" ->
                                Finish(r, ServerError(Conf))
    /\ UNCHANGED <<env, handler, pre, rows, bucket, now, req>>

\* The fallback image-generation call.
ImageRetry(r) ==
    /\ pc[r] = "retry"
    /\ \E out \in env.imgOuts :
         LET p == RetryPrompt(Conf)
             h == [Called(r, "img") EXCEPT
                     ![r].imgPrompts = Append(@, p)]
         IN  IF out = NoError
             THEN /\ hist' = [h EXCEPT ![r].imgOk = TRUE]
                  /\ loc' = [loc EXCEPT
                               ![r].used = IF Conf.retrySetsUsed THEN p ELSE @]
                  /\ Goto(r, "upload")
             ELSE /\ hist' = [h EXCEPT ![r].imgErrs = Append(@, out)]
                  /\ UNCHANGED loc
                  /\ IF OnRetryError(Conf) = "blocked400"
                     THEN Finish(r, ErrorResp(400, "Blocked by safety filter"))
                     ELSE Finish(r, ServerError(Conf))
    /\ UNCHANGED <<env, handler, pre, rows, bucket, now, req>>

\* `${prefix}${Date.now()}_${seed}.png`
Filename(c, t, seed) == [prefix |-> c.prefix, t |-> t, seed |-> seed]

\* Storage upload (upsert is off: an existing path is an error) and
\* getPublicUrl.
Upload(r) ==
    /\ pc[r] = "upload"
    /\ \E t \in {now, now + 1}, out \in env.uploadOuts :
         LET filename == Filename(Conf, t, HashToSeed(loc[r].msg))
             exists   == \E o \in bucket : o.path = filename
             ok       == out = "ok" /\ ~exists
         IN  /\ t <= MaxNow
             /\ now' = t
             /\ bucket' = IF ok THEN bucket \cup {[path |-> filename, by |-> r]}
                          ELSE bucket
             /\ hist' = [Called(r, "upload") EXCEPT ![r].uploadOk = ok]
             /\ IF ~ok /\ Conf.uploadChecked
                THEN /\ Finish(r, ServerError(Conf))
                     /\ UNCHANGED loc
                ELSE /\ Goto(r, "insert")
                     /\ loc' = [loc EXCEPT ![r].image_url = filename]
    /\ UNCHANGED <<env, handler, pre, rows, req>>

\* a row whose seed is derived from the message and the submitter's ip
Row_SeedFromIp(c, r) ==
    [message |-> loc[r].msg, image_url |-> loc[r].image_url,
     seed |-> HashToSeed(loc[r].msg \o Str1(IF req[r].ip = "ip1"
                                             THEN "a" ELSE "b")),
     style_version |-> c.styleVersion,
     ip |-> IF c.storesIp THEN req[r].ip ELSE "",
     prompt_used |-> IF c.promptUsedColumn THEN loc[r].revised ELSE NoPrompt,
     by |-> r]

\* the object handed to insert
Row(c, r) ==
    [message |-> loc[r].msg, image_url |-> loc[r].image_url,
     seed |-> HashToSeed(loc[r].msg), style_version |-> c.styleVersion,
     ip |-> IF c.storesIp THEN req[r].ip ELSE "",
     prompt_used |-> IF c.promptUsedColumn THEN loc[r].revised ELSE NoPrompt,
     by |-> r]

\* a table that refuses rows once it holds 200 of them
InsertResults_CeilingEnforced ==
    IF TableCount >= 200 THEN {"error"} ELSE env.insertOuts

\* what the insert can return: the table itself puts no limit on its size
InsertResults == env.insertOuts

\* Database insert, and the 200 response of the handlers without a CMS.
Insert(r) ==
    /\ pc[r] = "insert"
    /\ \E out \in InsertResults :
         /\ rows' = IF out = "ok" THEN Append(rows, Row(Conf, r)) ELSE rows
         /\ hist' = [Called(r, "insert") EXCEPT ![r].insertErr = (out = "error")]
         /\ IF out = "error" /\ Conf.insertChecked
            THEN Finish(r, ServerError(Conf))
            ELSE IF AfterInsert(Conf) = "done"
            THEN Finish(r, OkResp(loc[r].image_url, loc[r].used))
            ELSE Goto(r, AfterInsert(Conf))
    /\ UNCHANGED <<env, handler, pre, bucket, now, req, loc>>

\* what the handler answers after the CMS push ended as `out`
AfterCms(c, out) ==
    CASE c.cms = "strict" ->
            IF out = "ok" THEN "ok200"
            ELSE IF out = "notok" THEN "cms500" ELSE "throw"
      [] c.cms = "log" -> IF out = "throw" THEN "throw" ELSE "ok200"
      [] OTHER -> "ok200"

\* The CMS push and the final response.
Cms(r) ==
    /\ pc[r] = "cms"
    /\ \E out \in env.cmsOuts :
         /\ hist' = [Called(r, "cms") EXCEPT ![r].cms = out]
         /\ CASE AfterCms(Conf, out) = "ok200" ->
                    Finish(r, OkResp(loc[r].image_url, loc[r].used))
              [] AfterCms(Conf, out) = "cms500" ->
                    Finish(r, [ErrorResp(500, "Webflow CMS insert failed")
                                 EXCEPT !.details = TRUE])
              [] AfterCms(Conf, out) = "throw" ->
                    Finish(r, ServerError(Conf))
    /\ UNCHANGED <<env, handler, pre, rows, bucket, now, req, loc>>

Next ==
    \E r \in Req :
        \/ Invoke(r)
        \/ CountQuery(r)
        \/ UserCountQuery(r)
        \/ ModerateUser(r)
        \/ Llm(r)
        \/ ModeratePrompt(r)
        \/ ImageGenerate(r)
        \/ ImageRetry(r)
        \/ Upload(r)
        \/ Insert(r)
        \/ Cms(r)

Spec == Init /\ [][Next]_vars

SpecRace == InitRace /\ [][Next]_vars

\* one invocation whose every awaited call comes back
InitLive ==
    /\ env = LiveEnv
    /\ handler \in Handlers
    /\ pre \in LiveProfiles
    /\ pc = [r \in Req |-> IF r = "r1" THEN "idle" ELSE "off"]
    /\ InitRest

SpecLive == InitLive /\ [][Next]_vars /\ WF_vars(Next)

\* invocations of one handler that do not overlap: one at a time
InitSeq ==
    /\ env = SeqEnv
    /\ handler \in SeqHandlers
    /\ pre \in SeqProfiles
    /\ pc = [r \in Req |-> IF r = "r1" THEN "idle" ELSE "off"]
    /\ InitRest

\* The platform starts the handler again once the last invocation has
\* answered: a fresh req / res and fresh locals.
Reinvoke(r) ==
    /\ pc[r] = "done"
    /\ pc' = [pc EXCEPT ![r] = "idle"]
    /\ req' = [req EXCEPT ![r] = [method |-> "", raw |-> RawUndefined,
                                  ip |-> ""]]
    /\ loc' = [loc EXCEPT ![r] = InitLoc]
    /\ resp' = [resp EXCEPT ![r] = NoResp]
    /\ hist' = [hist EXCEPT ![r] = InitHist]
    /\ UNCHANGED <<env, handler, pre, rows, bucket, now>>

NextSeq ==
    \E r \in Req :
        \/ Invoke(r)
        \/ CountQuery(r)
        \/ UserCountQuery(r)
        \/ ModerateUser(r)
        \/ Llm(r)
        \/ ModeratePrompt(r)
        \/ ImageGenerate(r)
        \/ ImageRetry(r)
        \/ Upload(r)
        \/ Insert(r)
        \/ Reinvoke(r)

SpecSeq == InitSeq /\ [][NextSeq]_vars

(***************************************************************************)
(* Properties.                                                             *)
(***************************************************************************)
Done(r) == pc[r] = "done"

RowsBy(r) == {i \in 1..Len(rows) : rows[i].by = r}

ObjectsBy(r) == {o \in bucket : o.by = r}

NoGenerationOrWrite(r) ==
    /\ hist[r].calls.llm = 0
    /\ hist[r].calls.mod = 0
    /\ hist[r].calls.img = 0
    /\ hist[r].calls.upload = 0
    /\ hist[r].calls.insert = 0
    /\ RowsBy(r) = {}
    /\ ObjectsBy(r) = {}

ClassifiedHandlers == {"submitAI_2", "part_002", "part_006"}

\* C1: in the flower handler (second module of submitAI.js) and the bird
\* handler, a request whose global count query returned a number >= 200
\* (200 included) is answered 403 with the garden-full / aviary-full message
\* and makes no language-model, moderation, image, upload or insert call.
C1_GlobalCeilingRejects ==
    \A r \in Req :
        (/\ handler \in {"submitAI_2", "submitBird"}
         /\ ~hist[r].count.null
         /\ hist[r].count.n >= 200)
        => /\ Done(r)
           /\ resp[r].status = 403
           /\ resp[r].error = (IF handler = "submitBird"
                               THEN "The aviary is full"
                               ELSE "Garden is full")
           /\ NoGenerationOrWrite(r)

C1_Witness ==
    \E r \in Req :
        /\ handler = "submitAI_2"
        /\ req[r].method = "POST"
        /\ loc[r].clean # <<>>
        /\ hist[r].count = CountOk(200)
        /\ resp[r].status = 403

\* C2: in the same two handlers, a request that passed the global check and
\* whose per-identity count query returned a number >= 500 is answered 403
\* with the per-user message and makes no further call.
C2_PerIdentityCeilingRejects ==
    \A r \in Req :
        (/\ handler \in {"submitAI_2", "submitBird"}
         /\ ~hist[r].userCount.null
         /\ hist[r].userCount.n >= 500)
        => /\ Done(r)
           /\ resp[r].status = 403
           /\ resp[r].error = (IF handler = "submitBird"
                               THEN "Max 3 birds per user"
                               ELSE "Max 3 blooms per user")
           /\ hist[r].calls.count = 2
           /\ NoGenerationOrWrite(r)

C2_Witness ==
    \E r \in Req :
        /\ handler = "submitBird"
        /\ hist[r].count.null
        /\ hist[r].userCount = CountOk(500)
        /\ resp[r].status = 403

C4_OneSafeRetry ==
    \A r \in Req :
        (/\ handler \in ClassifiedHandlers
         /\ hist[r].imgErrs # <<>>
         /\ LooksLikeModerationBlock(Conf, hist[r].imgErrs[1]))
        => /\ hist[r].calls.img <= 2
           /\ hist[r].calls.img = Len(hist[r].imgPrompts)
           /\ IF pc[r] = "retry"
              THEN hist[r].calls.img = 1
              ELSE /\ hist[r].calls.img = 2
                   /\ hist[r].imgPrompts[2] =
                        [desc |-> "SAFE_FALLBACK_PROMPT", msg |-> <<>>,
                         style |-> ""]
                   /\ (Len(hist[r].imgErrs) = 2
                       => /\ Done(r)
                          /\ resp[r].status = 400
                          /\ resp[r].error = "Blocked by safety filter"
                          /\ hist[r].calls.upload = 0
                          /\ hist[r].calls.insert = 0
                          /\ RowsBy(r) = {}
                          /\ ObjectsBy(r) = {})

C4_Witness ==
    \E r \in Req :
        /\ handler = "part_002"
        /\ Len(hist[r].imgErrs) = 2
        /\ hist[r].imgErrs[1].code = "moderation_blocked"
        /\ hist[r].imgPrompts[2].desc = "SAFE_FALLBACK_PROMPT"
        /\ resp[r].status = 400

\* C5: in the handlers with the classified fallback, when the first image
\* call failed with an error the classifier does not take for a safety
\* rejection, the answer is 500, no second image call is made and nothing
\* is uploaded or inserted.
C5_NonSafetyFailsAtOnce ==
    \A r \in Req :
        (/\ handler \in ClassifiedHandlers
         /\ hist[r].imgErrs # <<>>
         /\ ~LooksLikeModerationBlock(Conf, hist[r].imgErrs[1]))
        => /\ Done(r)
           /\ resp[r].status = 500
           /\ hist[r].calls.img = 1
           /\ hist[r].calls.upload = 0
           /\ hist[r].calls.insert = 0
           /\ RowsBy(r) = {}
           /\ ObjectsBy(r) = {}

C5_Witness ==
    \E r \in Req :
        /\ handler = "submitAI_2"
        /\ hist[r].imgErrs # <<>>
        /\ hist[r].imgErrs[1].code = "rate_limit_exceeded"
        /\ resp[r].status = 500
        /\ resp[r].error = "Image generation error"

\* the raw message is absent, falsy, empty or made of whitespace only
IsBlankInput(raw) ==
    \/ raw.t \in {"undefined", "null", "false", "zero"}
    \/ raw.t = "string" /\ \A i \in 1..Len(raw.s) : IsWhitespace(raw.s[i][1])

\* C6: in every handler, a POST whose message is absent, empty or
\* whitespace-only is answered 400 "Message required" before any external
\* call, and nothing is written.
C6_BlankMessageRejected ==
    \A r \in Req :
        (pc[r] # "idle" /\ req[r].method = "POST" /\ IsBlankInput(req[r].raw))
        => /\ Done(r)
           /\ resp[r].status = 400
           /\ resp[r].error = "Message required"
           /\ hist[r].calls = NoCalls
           /\ RowsBy(r) = {}
           /\ ObjectsBy(r) = {}

C6_Witness ==
    \E r \in Req :
        /\ req[r].method = "POST"
        /\ req[r].raw = RawString(<< <<" ", 2>>, <<"\n", 1>> >>)
        /\ resp[r].status = 400
        /\ resp[r].error = "Message required"

\* C7: in every handler, a request executes the insert at most once, and
\* only after one of its image calls returned image bytes; a request all of
\* whose image calls failed inserts nothing.
C7_InsertOnceAfterImage ==
    \A r \in Req :
        /\ hist[r].calls.insert <= 1
        /\ Cardinality(RowsBy(r)) <= hist[r].calls.insert
        /\ (hist[r].calls.insert > 0 \/ pc[r] \in {"upload", "insert", "cms"})
           => hist[r].imgOk
        /\ (hist[r].imgErrs # <<>> /\ ~hist[r].imgOk)
           => hist[r].calls.insert = 0

C7_Witness ==
    \E r \in Req :
        /\ handler = "part_010"
        /\ Len(hist[r].imgErrs) = 1
        /\ hist[r].imgOk
        /\ hist[r].calls.insert = 1
        /\ Cardinality(RowsBy(r)) = 1

\* C8 (as claimed): whenever a handler answers 200 { ok: true, image_url,
\* prompt }, exactly one row of that request is in the table, with message
\* the normalised message, seed the derived seed and image_url the one of
\* the response; also when the insert reports its failure as a returned
\* error value.
C8_OkMeansOneRecord ==
    \A r \in Req :
        (resp[r].status = 200 /\ resp[r].ok)
        => /\ Cardinality(RowsBy(r)) = 1
           /\ \A i \in RowsBy(r) :
                /\ rows[i].message = loc[r].clean
                /\ rows[i].seed = HashToSeed(loc[r].clean)
                /\ rows[i].image_url = resp[r].image_url

\* C9 (as claimed): a request that ends with a 400, 403, 405 or 500 response
\* leaves no row of that request in the table; in particular a failing CMS
\* step gives no 500 after the row was inserted.
C9_FailureLeavesNoRecord ==
    \A r \in Req :
        (Done(r) /\ resp[r].status \in {400, 403, 405, 500})
        => RowsBy(r) = {}

\* C10 (as claimed): in every handler, a language-model call that throws
\* does not abort the request: the pipeline goes on to image generation and
\* the failure alone never gives a 500 response.
C10_LlmFailureAbsorbed ==
    \A r \in Req :
        (hist[r].llmFailed /\ Done(r))
        => hist[r].calls.img >= 1

GateHandlers == {"submitAI_2", "part_001", "part_006", "part_007", "part_010"}

LastModOut(h) == h.modOuts[Len(h.modOuts)]

\* C11: in the handlers with a safety gate, a moderation call that fails is
\* taken as not flagged: after a failed screening of the user message the
\* request goes on to the language-model call, after a failed screening of
\* the composed description that description is kept and becomes the image
\* prompt, and no moderation step ends the request.
C11_ModerationFailOpen ==
    [][\A r \in Req :
          (handler \in GateHandlers /\ pc[r] \in {"modUser", "modPrompt"}
           /\ pc'[r] # pc[r])
          => /\ pc'[r] # "done"
             /\ resp'[r] = NoResp
             /\ (LastModOut(hist'[r]).out = "error" /\ pc[r] = "modUser")
                => /\ pc'[r] = "llm"
                   /\ ~loc'[r].userFlagged
             /\ (LastModOut(hist'[r]).out = "error" /\ pc[r] = "modPrompt"
                 /\ loc[r].desc # "")
                => /\ pc'[r] = "image"
                   /\ loc'[r].desc = loc[r].desc
                   /\ loc'[r].prompt.desc = loc[r].desc]_vars

C11_Witness ==
    \E r \in Req :
        /\ handler = "submitAI_2"
        /\ Len(hist[r].modOuts) = 2
        /\ hist[r].modOuts[1].out = "error"
        /\ hist[r].modOuts[2].out = "error"
        /\ hist[r].calls.llm = 1
        /\ hist[r].imgPrompts # <<>>
        /\ hist[r].imgPrompts[1].desc = "rose"
        /\ resp[r].status = 200

SafeGateHandlers == {"submitAI_2", "part_006", "part_010"}

SafeFallbackPrompt ==
    [desc |-> "SAFE_FALLBACK_PROMPT", msg |-> <<>>, style |-> ""]

\* C12: in submitAI.js (second module), part_006 and part_010, when
\* moderation flagged the user's message the language model is never
\* called and the first image call gets exactly SAFE_FALLBACK_PROMPT; when
\* moderation flagged the composed description the first image call gets
\* exactly SAFE_FALLBACK_PROMPT; no image call ever carries a text that
\* moderation reported as flagged, the fixed safe prompt excepted, and
\* none carries the user's message.
C12_FlaggedTextReplaced ==
    \A r \in Req :
        handler \in SafeGateHandlers
        => \A i \in 1..Len(hist[r].modOuts) :
              hist[r].modOuts[i].out = "flagged"
              => /\ hist[r].modOuts[i].stage = "user"
                    => hist[r].calls.llm = 0
                 /\ pc[r] # "image" \/ i < Len(hist[r].modOuts)
                    \/ loc[r].prompt = SafeFallbackPrompt
                 /\ hist[r].imgPrompts # <<>>
                    => hist[r].imgPrompts[1] = SafeFallbackPrompt
                 /\ \A k \in 1..Len(hist[r].imgPrompts) :
                       /\ hist[r].imgPrompts[k].msg = <<>>
                       /\ hist[r].imgPrompts[k].desc
                              = hist[r].modOuts[i].desc
                          => hist[r].imgPrompts[k] = SafeFallbackPrompt

C12_Witness ==
    \E r \in Req :
        /\ handler = "part_010"
        /\ Len(hist[r].modOuts) = 2
        /\ hist[r].modOuts[1].out = "clean"
        /\ hist[r].modOuts[2].out = "flagged"
        /\ hist[r].modOuts[2].desc = "rose"
        /\ hist[r].imgPrompts # <<>>
        /\ hist[r].imgPrompts[1] = SafeFallbackPrompt
        /\ resp[r].status = 200

\* an image error that is a safety / moderation rejection of the prompt
IsSafetyRejection(err) ==
    \/ err.code = "moderation_blocked"
    \/ err.status = 400
       /\ MatchesSafetyRe("safety system|moderation", err.msg)

\* C13 (as claimed): in the bird and the fish handler, a first image call
\* that failed with a safety rejection is followed by exactly one retry
\* with a fixed safe prompt, and the request is rejected only when that
\* retry failed, with 400 and not 500.
C13_BirdFishSafetyRetry ==
    \A r \in Req :
        (/\ handler \in {"submitBird", "submitFish"}
         /\ hist[r].imgErrs # <<>>
         /\ IsSafetyRejection(hist[r].imgErrs[1])
         /\ Done(r))
        => /\ hist[r].calls.img = 2
           /\ resp[r].status # 500 \/ hist[r].imgOk
           /\ Len(hist[r].imgErrs) = 2 => resp[r].status = 400

UnguardedFallbackHandlers == {"part_000", "part_009_1", "part_010"}

\* C14 (as claimed): in part_000, part_009 (first module) and part_010, a
\* first image call that failed with an error that is no safety rejection
\* ends the request at once with 500: no second image call follows, and no
\* 200 response carries the fallback image.
C14_FallbackOnlyOnSafety ==
    \A r \in Req :
        (/\ handler \in UnguardedFallbackHandlers
         /\ hist[r].imgErrs # <<>>
         /\ ~IsSafetyRejection(hist[r].imgErrs[1]))
        => /\ hist[r].calls.img = 1
           /\ Done(r)
           /\ resp[r].status = 500

\* C15 (as claimed): in every handler, the prompt of a 200 response is the
\* prompt that was passed to the image call which returned the stored
\* image; after a fallback retry it is the fallback prompt.
C15_ResponsePromptIsPromptUsed ==
    \A r \in Req :
        (resp[r].status = 200 /\ resp[r].ok)
        => /\ hist[r].imgPrompts # <<>>
           /\ resp[r].prompt = hist[r].imgPrompts[Len(hist[r].imgPrompts)]

CmsHandlers == {"part_003_1", "part_004", "part_005", "part_009_2"}

\* C16 (as claimed): in the handlers that push to the CMS, once the row is
\* inserted the response is 200 with ok: true whatever the CMS push did
\* (non-OK status, or the request throwing).
C16_CmsFailureOnlyLogged ==
    \A r \in Req :
        (/\ handler \in CmsHandlers
         /\ RowsBy(r) # {}
         /\ hist[r].cms # "none"
         /\ Done(r))
        => resp[r].status = 200 /\ resp[r].ok

\* C17: two requests to one handler running concurrently can each read a
\* count below the ceiling and each insert a row: a request that passed
\* its checks and waits at the insert has read a count below the ceiling,
\* and its insert can add the row whatever the table holds by then, so
\* that the table can end with more rows than the ceiling (201 of 200).
C17_NothingPreventsOvershoot ==
    \A r \in Req :
        pc[r] = "insert"
        => /\ ~GlobalCapacityExceeded(hist[r].count)
           /\ ~PerIdentityCapacityExceeded(Conf, hist[r].userCount)
           /\ ENABLED (Insert(r) /\ Len(rows') = Len(rows) + 1)

C17_Witness ==
    /\ handler = "submitAI_2"
    /\ \A r \in Req : hist[r].count = CountOk(199) /\ RowsBy(r) # {}
    /\ TableCount = 201
    /\ \A r \in Req : resp[r].status = 200

\* C18: the seed stored in a row is a function of the normalised message
\* alone: two rows written by requests (to one handler) with the same
\* normalised message carry the same seed, whatever the submitter, the
\* time, the language-model text, the moderation outcome or the use of
\* the fallback prompt; and every seed is an unsigned 32-bit integer.
C18_SeedDeterministic ==
    /\ \A i, j \in 1..Len(rows) :
          loc[rows[i].by].clean = loc[rows[j].by].clean
          => rows[i].seed = rows[j].seed
    /\ \A i \in 1..Len(rows) :
          /\ rows[i].seed.hi \in 0..65535
          /\ rows[i].seed.lo \in 0..65535
          /\ rows[i].image_url.seed = rows[i].seed

C18_Witness ==
    /\ handler = "submitAI_2"
    /\ Len(rows) = 2
    /\ rows[1].by # rows[2].by
    /\ rows[1].ip # rows[2].ip
    /\ rows[1].image_url.t # rows[2].image_url.t
    /\ req["r1"].raw # req["r2"].raw
    /\ loc["r1"].clean = loc["r2"].clean
    /\ Len(hist["r1"].imgPrompts) # Len(hist["r2"].imgPrompts)
    /\ hist["r1"].modOuts # hist["r2"].modOuts
    /\ rows[1].seed = rows[2].seed

Started(r) == pc[r] \notin {"idle", "off"} /\ req[r].method = "POST"

\* C19: for every raw input the normalised message is at most cap
\* characters long (500, 200 in part_001, 300 in part_009 first module);
\* an input longer than the cap is cut to its first cap characters after
\* trimming and is not rejected for its length.
C19_NormalizedWithinCap ==
    \A r \in Req :
        Started(r)
        => /\ StrLen(loc[r].clean) <= Conf.cap
           /\ \A i \in RowsBy(r) : StrLen(rows[i].message) <= Conf.cap
           /\ (StrLen(Trim(JsToString(OrEmpty(req[r].raw)))) > Conf.cap)
              => /\ StrLen(loc[r].clean) = Conf.cap
                 /\ resp[r].error # "Message required"
                 /\ resp[r].status # 400 \/ hist[r].calls.img > 0

C19_Witness ==
    \E r \in Req :
        /\ handler = "part_001"
        /\ req[r].raw = RawString(<< <<" ", 1>>, <<"b", LongLen>>, <<" ", 1>> >>)
        /\ loc[r].clean = << <<"b", 200>> >>
        /\ RowsBy(r) # {}
        /\ resp[r].status = 200

StartsOrEndsWithWhitespace(s) ==
    s # <<>> /\ (IsWhitespace(s[1][1]) \/ IsWhitespace(s[Len(s)][1]))

\* C20 (as claimed): for every raw input the normalised message has no
\* leading and no trailing whitespace, also when the input was cut at the
\* cap, and normalising it again returns it unchanged.
C20_NormalizedIsTrimmed ==
    \A r \in Req :
        Started(r)
        => /\ ~StartsOrEndsWithWhitespace(loc[r].clean)
           /\ Normalize(RawString(loc[r].clean), Conf.cap) = loc[r].clean

\* the fixed prompts that spell out the theme's style themselves
StyledFixedPrompts == {"SAFE_FALLBACK_PROMPT", "LUMINOUS_SAFE_FLOWER"}

\* the prompt carries the style text: the handler wrapped its own template
\* around the description, or the prompt is a fixed text that spells it out
ContainsStyleAnchor(p) == p.style # "" \/ p.desc \in StyledFixedPrompts

\* C21 (as claimed): in every handler, every prompt passed to image
\* generation (composed from the language model's text, put in by the
\* safety gate, or used for the fallback retry) contains the theme's
\* style-anchor text.
C21_EveryPromptHasStyleAnchor ==
    \A r \in Req :
        \A k \in 1..Len(hist[r].imgPrompts) :
            ContainsStyleAnchor(hist[r].imgPrompts[k])

\* C22 (as claimed): any two distinct requests that reach the upload step
\* of one handler, two concurrent requests with the same normalised
\* message included, upload to distinct storage paths, and no request's
\* image_url refers to an object written by another request.
C22_DistinctStoragePaths ==
    \A r1, r2 \in Req :
        (r1 # r2 /\ hist[r1].calls.upload > 0 /\ hist[r2].calls.upload > 0)
        => /\ loc[r1].image_url # loc[r2].image_url
           /\ \A o \in bucket : o.path = loc[r1].image_url => o.by = r1

\* C23: in every handler a request with method OPTIONS is answered 200
\* with the CORS headers, and a request whose method is neither OPTIONS
\* nor POST is answered 405 "Use POST"; either answer is given whatever
\* the body holds, before the message is read, with no external call and
\* no write.
C23_MethodDispatch ==
    \A r \in Req :
        (pc[r] \notin {"idle", "off"} /\ req[r].method # "POST")
        => /\ Done(r)
           /\ resp[r].cors
           /\ IF req[r].method = "OPTIONS"
              THEN resp[r] = [NoResp EXCEPT !.status = 200, !.cors = TRUE]
              ELSE resp[r].status = 405 /\ resp[r].error = "Use POST"
           /\ loc[r] = InitLoc
           /\ hist[r] = InitHist
           /\ RowsBy(r) = {}
           /\ ObjectsBy(r) = {}

C23_Witness ==
    \E r \in Req :
        /\ req[r].method = "OPTIONS"
        /\ req[r].raw = RawNull
        /\ resp[r].status = 200
        /\ Done(r)

\* C24 (as claimed): the per-submitter limit is 3: a POST from an identity
\* that already has 3 or more rows in the table is rejected with 403 and
\* the "Max 3 ... per user" message.
C24_LimitIsThree ==
    \A r \in Req :
        (/\ handler \in {"submitAI_1", "submitAI_2", "submitBird",
                          "part_003_1", "part_003_2"}
         /\ ~hist[r].userCount.null
         /\ hist[r].userCount.n >= 3)
        => /\ Done(r)
           /\ resp[r].status = 403
           /\ resp[r].error \in {"Max 3 blooms per user",
                                  "Max 3 birds per user"}

IsPrefix(s, t) == Len(s) <= Len(t) /\ s = SubSeq(t, 1, Len(s))

\* the orders of external calls of one request of submitAI.js (second
\* module): with or without the language-model call, with or without the
\* fallback image call
LinearOrders ==
    { <<"count", "count", "mod">> \o l \o <<"mod", "img">> \o i
         \o <<"upload", "insert">> :
      l \in {<<>>, <<"llm">>}, i \in {<<>>, <<"img">>} }

\* C25: within one request of submitAI.js (second module) the external
\* calls are made one after another in the order global count, per-identity
\* count, moderation of the message, completion, moderation of the prompt,
\* image generation (and at most one fallback image generation), upload,
\* insert, response; the global check comes first, so that with both
\* ceilings reached the answer is the garden-full message; no call but
\* image generation is issued again after a failure.
C25_LinearCallOrder ==
    \A r \in Req :
        handler = "submitAI_2"
        => /\ \E t \in LinearOrders : IsPrefix(hist[r].trace, t)
           /\ hist[r].calls.count = 1 => hist[r].userCount = NoCount
           /\ hist[r].calls.count = 2 => hist[r].count # NoCount
           /\ (resp[r].status = 200 /\ resp[r].ok)
              => hist[r].trace \in LinearOrders
           /\ (~hist[r].count.null /\ hist[r].count.n >= 200
               /\ TableCountFor(req[r].ip) >= 500)
              => /\ resp[r].error = "Garden is full"
                 /\ hist[r].trace = <<"count">>
           /\ hist[r].calls.llm <= 1
           /\ hist[r].calls.upload <= 1
           /\ hist[r].calls.insert <= 1
           /\ hist[r].calls.mod <= 2
           /\ hist[r].calls.img <= 2

C25_Witness ==
    \E r \in Req :
        /\ handler = "submitAI_2"
        /\ hist[r].trace = <<"count", "count", "mod", "llm", "mod", "img",
                             "img", "upload", "insert">>
        /\ resp[r].status = 200

\* the error code is the moderation-blocked code, or the message matches
\* "safety" or "moderation" in any letter case
SafetyByCodeOrMessage(err) ==
    \/ err.code = "moderation_blocked"
    \/ HasWord(err.msg, "safety")
    \/ HasWord(err.msg, "moderation")

\* C26 (as claimed): in the handlers with a classified fallback
\* (submitAI.js second module, part_002, part_006, part_004) a failed first
\* image call is taken for a safety rejection, and retried, exactly when
\* its code is the moderation-blocked code or its message matches "safety"
\* or "moderation", whatever the HTTP status of the error.
C26_ClassifiedByCodeOrMessage ==
    \A r \in Req :
        (/\ handler \in ClassifiedHandlers \cup {"part_004"}
         /\ hist[r].imgErrs # <<>>)
        => (SafetyByCodeOrMessage(hist[r].imgErrs[1])
            <=> (pc[r] = "retry" \/ hist[r].calls.img = 2))

\* C27: when the requests to submitAI.js or submitBird.js run one at a
\* time, the table starts with at most 200 rows and every count query
\* returns the true count, the table never holds more than 200 rows, and
\* rows are only ever added: none is removed or changed.
C27_SequentialWithinCeiling ==
    /\ [](TableCount <= 200)
    /\ [][pre' = pre /\ IsPrefix(rows, rows')]_vars

C27_Witness ==
    /\ handler = "submitBird"
    /\ Len(rows) = 2
    /\ TableCount = 200
    /\ \E r \in Req :
          /\ hist[r].count = CountOk(200)
          /\ resp[r].status = 403

\* C28: in every handler but part_005, a count query that fails and
\* yields no count (null with an error value) leaves its capacity check
\* at "not exceeded" and the request goes on to the next stage; part_005
\* alone answers a failed global count query with 500, before any
\* generation call.
C28_CountFailureFailsOpen ==
    \A r \in Req :
        /\ (/\ handler # "part_005"
            /\ \/ hist[r].count = CountNull /\ hist[r].trace = <<"count">>
               \/ /\ hist[r].userCount = CountNull
                  /\ hist[r].trace = <<"count", "count">>)
           => /\ ~Done(r)
              /\ resp[r] = NoResp
        /\ (handler = "part_005" /\ hist[r].count = CountNull)
           => /\ Done(r)
              /\ resp[r].status = 500
              /\ hist[r].trace = <<"count">>

C28_Witness ==
    \E r \in Req :
        /\ handler = "submitBird"
        /\ pre = [ip1 |-> 200, ip2 |-> 0]
        /\ hist[r].count = CountNull
        /\ hist[r].userCount = CountNull
        /\ RowsBy(r) # {}
        /\ resp[r].status = 200

\* C29 (as claimed): every row a handler inserts carries an image_url of
\* an object that the same request uploaded successfully: when the upload
\* reports a failure the handler inserts no row and does not answer 200.
C29_RowRefersToOwnUpload ==
    \A r \in Req :
        /\ \A i \in RowsBy(r) :
              /\ hist[r].uploadOk
              /\ \E o \in ObjectsBy(r) : o.path = rows[i].image_url
        /\ (hist[r].calls.upload > 0 /\ ~hist[r].uploadOk)
           => /\ hist[r].calls.insert = 0
              /\ resp[r].status # 200

\* C30: for every handler and every request, provided each external call
\* returns or throws, the handler comes to an end having sent exactly one
\* response, with status 200, 400, 403, 405 or 500: a response once sent
\* is never followed by another, and no path, a throw inside the catch
\* block of the image fallback included, ends without one.
C30_ExactlyOneResponse ==
    /\ [](\A r \in Req :
            /\ Done(r) <=> resp[r] # NoResp
            /\ Done(r) => resp[r].status \in {200, 400, 403, 405, 500})
    /\ [][\A r \in Req : resp[r] # NoResp => resp'[r] = resp[r]]_vars
    /\ \A r \in Req : (pc[r] = "idle") ~> Done(r)

C30_Witness ==
    \E r \in Req :
        /\ handler = "part_010"
        /\ Len(hist[r].imgErrs) = 2
        /\ Done(r)
        /\ resp[r].status = 500
        /\ resp[r].error = "Server error"

=============================================================================
